---- MODULE Spec2Model ----
(***************************************************************************)
(* LavenderSentinel: RAG chat orchestration (ChatService), the session     *)
(* store it writes to (ChatSessionRepository) and the retrieval layer it   *)
(* reads from (VectorSearchHandler.get_context_for_rag).                   *)
(*                                                                         *)
(* Every request runs as its own asyncio task with its own ChatService.    *)
(* A task is suspended only at an await; the actions below are the pieces  *)
(* of chat() / chat_stream() between two awaits that touch the store, the  *)
(* index, the model or the consumer of the stream.                         *)
(*                                                                         *)
(* The specifications share these actions:                                 *)
(*   Spec          requests that arrive one after the other, every kind of *)
(*                 request and every outcome of retrieval and generation;  *)
(*   SpecOverlap   requests that overlap in time on the same sessions;     *)
(*   SpecScope     requests and sessions that name different papers;       *)
(*   SpecSessions  get_session / delete_session / update_title between     *)
(*                 chat requests;                                          *)
(*   SpecRag       _get_rag_context alone on every ranked list of matches; *)
(*   SpecHistory   one turn on a session of any length;                    *)
(*   SpecFollowup  _generate_followup_suggestions alone.                   *)
(*                                                                         *)
(* Next to the chat service run the paper ingestion of the daily job       *)
(* (PaperRepository.insert_new_papers) and the SchedulerService that       *)
(* registers and fires it:                                                 *)
(*   SpecIngest     insert_new_papers on every list of papers;             *)
(*   SpecScheduler  start / reload / shutdown calls and job runs.          *)
(***************************************************************************)
EXTENDS Integers, Sequences, FiniteSets, TLC

VARIABLES sessions, nextId, pc, req, loc, events, result, api,
          rag_pc, rag_hits, rag_scope, rag_chunks, rag_out,
          paper_rows, ingest, sched

vars == <<sessions, nextId, pc, req, loc, events, result, api,
          rag_pc, rag_hits, rag_scope, rag_chunks, rag_out,
          paper_rows, ingest, sched>>

chatVars == <<sessions, nextId, pc, req, loc, events, result, api>>
ragVars == <<rag_pc, rag_hits, rag_scope, rag_chunks, rag_out>>
jobVars == <<paper_rows, ingest, sched>>

(* ------------------------------ bounds --------------------------------- *)

\* request tasks (chat turns) the model runs, possibly overlapping in time
MaxTurns == 2
\* deltas one model stream may deliver before it ends or raises
MaxDeltas == 2
\* points of the index that match the query in the assembly specification
RagMaxHits == 6
\* paper ids that occur in the index in the assembly specification
RagPapers == 6
\* characters of the text of an indexed chunk: a long one, and a short one
\* that fits the excerpt
ChunkChars == 250
ShortChunkChars == 150
\* messages a session holds in the history specification
MaxHistory == 12
\* paper ids the crawler can hand to the repository
MaxPaperId == 2
\* papers in one list handed to insert_new_papers
MaxBatch == 2
\* calls of the scheduler's start() between two of its shutdowns
MaxStartCalls == 2
\* tokens of an assistant text in the follow-up specification
MaxAnswerTokens == 3

(* ------------------------- program constants --------------------------- *)

\* top_k default of _get_rag_context, passed on as the limit of the search
TopK == 5
\* session.messages[-10:] in _build_messages
HistoryLimit == 10
\* chunk.get("text", "")[:200] in _get_rag_context
ExcerptBudget == 200
\* ChatRequest.message: max_length=4000
MaxMessageChars == 4000

(* ----------------------------- helpers --------------------------------- *)

Tasks == 1..MaxTurns

\* a session id no session was ever stored under (a stale client-side id)
GhostId == 0
\* request.session_id = None
NoId == -1

Range(s) == {s[i] : i \in 1..Len(s)}

Min(a, b) == IF a < b THEN a ELSE b

\* s[:n]
Take(s, n) == SubSeq(s, 1, Min(n, Len(s)))

\* s[-n:]
LastNHead(s, n) == SubSeq(s, 1, IF n < Len(s) THEN n ELSE Len(s))

LastN(s, n) == IF Len(s) <= n THEN s ELSE SubSeq(s, Len(s) - n + 1, Len(s))

(* A Python value that is a str or None: text is a sequence of tokens, the *)
(* empty sequence is the empty string.                                     *)
Str(s) == [isnone |-> FALSE, s |-> s]
PyNone == [isnone |-> TRUE, s |-> <<>>]

(* ------------------------- retrieval layer ----------------------------- *)

\* the ranked points matching a query: the i-th hit has the i-th best score
\* (the chunks of the odd-numbered papers are long, the others short)
TextChars(paper_id) ==
    IF paper_id % 2 = 1 THEN ChunkChars ELSE ShortChunkChars

RankedHits(ids) ==
    [i \in 1..Len(ids) |->
        [paper_id |-> ids[i], score |-> Len(ids) + 1 - i,
         text |-> TextChars(ids[i])]]

\* Filter(should=[paper_id == pid for pid in paper_ids]), None if no paper_ids
PassesFilter(hit, paper_ids) ==
    paper_ids = <<>> \/ hit.paper_id \in Range(paper_ids)

\* VectorSearchHandler.get_context_for_rag: client.search with limit=top_k
GetContextForRagUnlimited(hits, paper_ids, top_k) ==
    SelectSeq(hits, LAMBDA h : PassesFilter(h, paper_ids))

GetContextForRag(hits, paper_ids, top_k) ==
    Take(SelectSeq(hits, LAMBDA h : PassesFilter(h, paper_ids)), top_k)

(* ------------------------- context assembly ---------------------------- *)

\* chunk.get("text", "")[:200] + "...": the characters kept, then the marker
Excerpt(text) == [chars |-> Min(text, ExcerptBudget), marker |-> TRUE]

\* the record appended to sources for a chunk
SourceOf(chunk) ==
    [paper_id |-> chunk.paper_id, excerpt |-> Excerpt(chunk.text),
     score |-> chunk.score]

\* the loop of _get_rag_context over chunks[i..], with seen_papers = seen
RECURSIVE AssembleNoDedup(_, _, _)
AssembleNoDedup(chunks, i, seen) ==
    IF i > Len(chunks) THEN <<>>
    ELSE <<SourceOf(chunks[i])>>
         \o AssembleNoDedup(chunks, i + 1, seen \cup {chunks[i].paper_id})

RECURSIVE Assemble(_, _, _)
Assemble(chunks, i, seen) ==
    IF i > Len(chunks) THEN <<>>
    ELSE IF chunks[i].paper_id \in seen
         THEN Assemble(chunks, i + 1, seen)
         ELSE <<SourceOf(chunks[i])>>
              \o Assemble(chunks, i + 1, seen \cup {chunks[i].paper_id})

\* sources of _get_rag_context: [] when there are no chunks
SourcesLastSeen(chunks) ==
    IF chunks = <<>> THEN <<>>
    ELSE Assemble([i \in 1..Len(chunks) |-> chunks[Len(chunks) + 1 - i]], 1, {})

Sources(chunks) == IF chunks = <<>> THEN <<>> ELSE Assemble(chunks, 1, {})

\* context of _get_rag_context: one templated block per source, "" if none
Context(chunks) ==
    LET src == Sources(chunks)
    IN  [i \in 1..Len(src) |-> [block |-> src[i].paper_id]]

\* _get_rag_context(query, paper_ids, top_k=5) on an index whose ranked
\* matches for the query are hits
GetRagContext(hits, paper_ids) ==
    LET chunks == GetContextForRag(hits, paper_ids, TopK)
    IN  [context |-> Context(chunks), sources |-> Sources(chunks)]

(* --------------------------- session store ----------------------------- *)

\* ChatSessionRepository.create: a fresh id, no messages
NewSession(paper_context) ==
    [messages |-> <<>>, paper_context |-> paper_context, title |-> "none"]

\* sessions after ChatSessionRepository.create(paper_context=...) stored id
CreateUnseeded(store, id, paper_context) ==
    [i \in DOMAIN store \cup {id} |->
        IF i = id THEN NewSession(<<>>) ELSE store[i]]

Create(store, id, paper_context) ==
    [i \in DOMAIN store \cup {id} |->
        IF i = id THEN NewSession(paper_context) ELSE store[i]]

\* ChatSessionRepository.get_by_id: the row, or None
Exists(store, id) == id \in DOMAIN store

\* message.model_dump(mode="json"): the JSON object stored in the row
ModelDump(message) ==
    [id |-> message.id, role |-> message.role, content |-> message.content,
     paper_ids |-> message.paper_ids, citations |-> message.citations]

\* ChatMessage(**m) of orm_to_model: the message rebuilt from its dump
LoadMessage(m) ==
    [id |-> m.id, role |-> m.role, content |-> m.content,
     paper_ids |-> m.paper_ids, citations |-> m.citations]

\* ChatSessionRepository.orm_to_model
OrmToModel(row) ==
    [messages |-> [i \in 1..Len(row.messages) |-> LoadMessage(row.messages[i])],
     paper_context |-> row.paper_context, title |-> row.title]

\* ChatSessionRepository.delete on a session that exists: the row is gone
DeleteKeep(store, id) == store

Delete(store, id) == [i \in DOMAIN store \ {id} |-> store[i]]

\* add_message after its get_by_id returned a row whose messages were read
\* as db_messages: the whole list is written back with the message appended
FlushPrepend(store, id, db_messages, message) ==
    [store EXCEPT ![id].messages = <<ModelDump(message)>> \o db_messages]

Flush(store, id, db_messages, message) ==
    [store EXCEPT ![id].messages = Append(db_messages, ModelDump(message))]

(* ----------------------------- messages -------------------------------- *)

\* the characters of a text: the token "long" stands for a run of text one
\* character longer than a request may be, any other token for one character
TokenChars(tok) == IF tok = "long" THEN MaxMessageChars + 1 ELSE 1

RECURSIVE Chars(_)
Chars(text) ==
    IF text = <<>> THEN 0 ELSE TokenChars(Head(text)) + Chars(Tail(text))

\* ChatRequest.message: Field(..., min_length=1, max_length=4000)
ValidMessageNoMax(message) == Chars(message) >= 1

ValidMessage(message) ==
    Chars(message) >= 1 /\ Chars(message) <= MaxMessageChars

\* ChatMessage: content is a str of at least one character (min_length=1)
ValidContent(c) == ~c.isnone /\ Len(c.s) >= 1

ChatMessage(t, role, content, paper_ids, citations) ==
    [id |-> <<t, role>>, role |-> role, content |-> content.s,
     paper_ids |-> paper_ids, citations |-> citations]

PaperIdsOf(sources) == [i \in 1..Len(sources) |-> sources[i].paper_id]
ExcerptsOf(sources) == [i \in 1..Len(sources) |-> sources[i].excerpt]

\* the system message of _build_messages: the context, or the placeholder
SystemContentRaw(context) == [placeholder |-> FALSE, context |-> context]

SystemContent(context) ==
    IF context # <<>> THEN [placeholder |-> FALSE, context |-> context]
    ELSE [placeholder |-> TRUE, context |-> <<>>]

\* _build_messages(session, new_message, context)
BuildMessages(session, new_message, context) ==
    <<[role |-> "system", content |-> SystemContent(context)]>>
    \o [i \in 1..Len(LastN(session.messages, HistoryLimit)) |->
          [role |-> LastN(session.messages, HistoryLimit)[i].role,
           content |-> LastN(session.messages, HistoryLimit)[i].content]]
    \o <<[role |-> "user", content |-> new_message]>>

\* f"I apologize, but I encountered an error processing your request: {e}"
Apology(e) == Str(<<"I apologize, but I encountered an error", e>>)

(* --------------------------- follow-ups -------------------------------- *)

\* str.lower() on one token of text
Lower(tok) == IF tok = "Result" THEN "result" ELSE tok

\* keyword in text.lower()
ContainsExact(text, keyword) == \E i \in 1..Len(text) : text[i] = keyword

Contains(text, keyword) == \E i \in 1..Len(text) : Lower(text[i]) = keyword

\* the fallback list of _generate_followup_suggestions
DefaultFollowups ==
    <<"Can you summarize the key takeaways?",
      "What are the practical applications of this research?",
      "Are there any related papers I should look at?">>

\* _generate_followup_suggestions(user_message, assistant_response)
GenerateFollowupSuggestionsStateful(user_message, assistant_response) ==
    IF \E t \in Tasks : pc[t] = "evaluated"
    THEN <<>>
    ELSE DefaultFollowups

GenerateFollowupSuggestions(user_message, assistant_response) ==
    LET methodology ==
            IF Contains(assistant_response, "methodology")
            THEN <<"Can you explain the methodology in more detail?">>
            ELSE <<>>
        limitation ==
            IF Contains(assistant_response, "limitation")
            THEN <<"What are the potential ways to address these limitations?">>
            ELSE <<>>
        finding ==
            IF Contains(assistant_response, "result")
                  \/ Contains(assistant_response, "finding")
            THEN <<"How do these findings compare to similar research?">>
            ELSE <<>>
        suggestions == methodology \o limitation \o finding
    IN  Take(IF suggestions = <<>> THEN DefaultFollowups ELSE suggestions, 3)

\* f"Error: {str(e)}"
ErrorMsg(e) == Str(<<"Error: ", e>>)

(* ------------------------------ inputs --------------------------------- *)

PaperContexts == {<<>>, <<1>>}
UserTexts == {<<"q">>}
\* the message of a request body: a question, nothing, or too much
RequestTexts == UserTexts \cup {<<>>, <<"long">>}
Errors == {"boom"}
\* what the batch completion can hand back as message.content
BatchTexts == {Str(<<"a">>), Str(<<>>), PyNone}
\* what one delta of the stream can carry as delta.content
DeltaTexts == {Str(<<"a">>), Str(<<>>)}
\* the ranked matches of the index for the query of a chat turn: none, or
\* two chunks of one paper and then a chunk of another (SpecRag below runs
\* the assembly on every list up to its bounds)
HitIds == {<<>>, <<1, 1, 2>>}
HitLists == {RankedHits(ids) : ids \in HitIds}

NoLoc ==
    [orm_id |-> NoId, session |-> NewSession(<<>>), db_messages |-> <<>>,
     user_message |-> <<>>, user_stored |-> FALSE,
     scope |-> <<>>, chunks |-> <<>>,
     sources |-> <<>>, context |-> <<>>, messages |-> <<>>,
     full_response |-> <<>>, deltas |-> 0, failure |-> "none",
     assistant_message |-> <<>>, assistant_stored |-> FALSE]

NoReq ==
    [mode |-> "none", session_id |-> NoId, given_id |-> NoId,
     message |-> <<>>, paper_context |-> <<>>, include_sources |-> FALSE]

\* no get_session / delete_session call is being answered
NoApi ==
    [op |-> "none", id |-> NoId, status |-> "none",
     session |-> OrmToModel(NewSession(<<>>))]

(* ------------------------- paper ingestion ----------------------------- *)

\* Paper.id == "" (falsy)
EmptyId == 0

\* the papers a search can return: an id, possibly empty, and the rest of the
\* record (two variants of it)
Papers == [id : 0..MaxPaperId, v : 1..2]
PaperLists == UNION {[1..n -> Papers] : n \in 0..MaxBatch}

\* PaperRow(id=p.id, paper=p.model_dump(mode="json"), ...)
PaperRow(p) == [id |-> p.id, paper |-> p.v]

\* paper_ids = [p.id for p in new_papers if p.id]
NonEmptyIds(new_papers) ==
    {new_papers[i].id : i \in {j \in 1..Len(new_papers) :
                                  new_papers[j].id # EmptyId}}

\* select(PaperRow.id).where(PaperRow.id.in_(paper_ids))
ExistingIds(rows, paper_ids) ==
    {rows[i].id : i \in 1..Len(rows)} \cap paper_ids

\* the loop of insert_new_papers: the papers appended to inserted
Inserted(new_papers, existing_ids) ==
    SelectSeq(new_papers,
              LAMBDA p : p.id # EmptyId /\ p.id \notin existing_ids)

\* db.commit() of rows added to the session: PaperRow.id is the primary key
\* (db.get(PaperRow, paper_id)), so two rows with one id cannot be inserted
PrimaryKeyConflict(rows) ==
    \E i, j \in 1..Len(rows) : i < j /\ rows[i].id = rows[j].id

NoIngest == [pc |-> "idle", list |-> <<>>, before |-> <<>>, out |-> <<>>,
             again |-> FALSE]

\* daily_arxiv._run lines 50-57: the search returned the papers of a keyword
FetchPapers(lists) ==
    /\ ingest.pc \in {"idle", "returned", "raised"}
    /\ \E papers \in lists :
         ingest' = [pc |-> "fetched", list |-> papers, before |-> paper_rows,
                    out |-> <<>>, again |-> FALSE]
    /\ UNCHANGED <<paper_rows, sched, chatVars, ragVars>>

\* PaperRepository.insert_new_papers(ingest.list): the list it returns, or
\* the exception of db.commit() (the session is closed without a commit)
InsertNewPapers ==
    /\ ingest.pc = "fetched"
    /\ LET new_papers == ingest.list
           existing_ids == ExistingIds(paper_rows, NonEmptyIds(new_papers))
           inserted == Inserted(new_papers, existing_ids)
           added == [i \in 1..Len(inserted) |-> PaperRow(inserted[i])]
       IN  IF new_papers = <<>>
           THEN /\ ingest' = [ingest EXCEPT !.pc = "returned", !.out = <<>>]
                /\ UNCHANGED paper_rows
           ELSE IF PrimaryKeyConflict(paper_rows \o added)
           THEN /\ ingest' = [ingest EXCEPT !.pc = "raised", !.out = <<>>]
                /\ UNCHANGED paper_rows
           ELSE /\ ingest' = [ingest EXCEPT !.pc = "returned", !.out = inserted]
                /\ paper_rows' = paper_rows \o added
    /\ UNCHANGED <<sched, chatVars, ragVars>>

\* the caller hands the same list to insert_new_papers once more
InsertAgain ==
    /\ ingest.pc \in {"returned", "raised"}
    /\ ~ingest.again
    /\ ingest' = [ingest EXCEPT !.pc = "fetched", !.before = paper_rows,
                                !.out = <<>>, !.again = TRUE]
    /\ UNCHANGED <<paper_rows, sched, chatVars, ragVars>>

(* ---------------------------- scheduler -------------------------------- *)

\* SchedulerService after __init__: _started, the state of the APScheduler
\* BackgroundScheduler (running or stopped, the jobs it holds, how often its
\* start() was called since its last shutdown()), and the last call made on
\* the service with the configuration it saw and whether it raised
NoSched ==
    [started |-> FALSE, running |-> FALSE, jobs |-> <<>>, start_calls |-> 0,
     op |-> "none", raised |-> FALSE, enabled |-> TRUE, cron_ok |-> TRUE]

\* scheduler.add_job(..., id=job_id, replace_existing=True)
AddJob(jobs, job_id) ==
    SelectSeq(jobs, LAMBDA j : j # job_id) \o <<job_id>>

\* reload(): remove_all_jobs(), then _add_daily_arxiv, whose
\* CronTrigger.from_crontab raises on an expression it cannot parse
ReloadJobs(jobs, cron_ok) ==
    IF cron_ok THEN AddJob(<<>>, "daily_arxiv") ELSE <<>>

\* SchedulerService.start()
SchedulerStart ==
    \E enabled \in BOOLEAN, cron_ok \in BOOLEAN :
        LET seen == [sched EXCEPT !.op = "start", !.raised = FALSE,
                                  !.enabled = enabled, !.cron_ok = cron_ok]
        IN  /\ sched.start_calls < MaxStartCalls
            /\ sched' =
                 IF sched.started \/ ~enabled THEN seen
                 ELSE IF sched.running
                 THEN [seen EXCEPT !.start_calls = @ + 1, !.raised = TRUE]
                 ELSE [seen EXCEPT !.running = TRUE,
                                   !.start_calls = @ + 1,
                                   !.jobs = ReloadJobs(@, cron_ok),
                                   !.started = cron_ok,
                                   !.raised = ~cron_ok]
            /\ UNCHANGED <<paper_rows, ingest, chatVars, ragVars>>

\* SchedulerService.shutdown(); the scheduler's shutdown() stops it and its
\* memory job store drops the jobs
SchedulerShutdown ==
    /\ sched' =
         IF ~sched.started
         THEN [sched EXCEPT !.op = "shutdown", !.raised = FALSE]
         ELSE [sched EXCEPT !.op = "shutdown", !.raised = FALSE,
                            !.started = FALSE, !.running = FALSE,
                            !.jobs = <<>>, !.start_calls = 0]
    /\ UNCHANGED <<paper_rows, ingest, chatVars, ragVars>>

\* SchedulerService.reload()
SchedulerReload ==
    /\ \E cron_ok \in BOOLEAN :
         sched' = [sched EXCEPT !.op = "reload", !.raised = ~cron_ok,
                                !.cron_ok = cron_ok,
                                !.jobs = ReloadJobs(@, cron_ok)]
    /\ UNCHANGED <<paper_rows, ingest, chatVars, ragVars>>

JobsIdle ==
    /\ paper_rows = <<>>
    /\ ingest = NoIngest
    /\ sched = NoSched

(* ------------------------------ actions -------------------------------- *)

ChatInit ==
    /\ sessions = << >>
    /\ nextId = 1
    /\ pc = [t \in Tasks |-> "idle"]
    /\ req = [t \in Tasks |-> NoReq]
    /\ loc = [t \in Tasks |-> NoLoc]
    /\ events = [t \in Tasks |-> <<>>]
    /\ result = [t \in Tasks |-> <<>>]
    /\ api = NoApi
    /\ JobsIdle

RagIdle ==
    /\ rag_pc = "off"
    /\ rag_hits = <<>>
    /\ rag_scope = <<>>
    /\ rag_chunks = <<>>
    /\ rag_out = <<>>

\* routers/chat.py send_message / stream_message up to the call of the
\* service. The body is parsed into a ChatRequest before the handler runs:
\* a message that fails its length constraints is answered with a
\* validation error, no ChatRequest exists and the handler is never
\* entered (the offending message is all that is kept). Otherwise, without
\* session_id a session is created. Tasks are numbered in the order their
\* requests arrive. (include_sources is read by the return statement only
\* and is drawn there, in Final.)
Request(t, givens, contexts, texts) ==
    /\ pc[t] = "idle"
    /\ \A u \in Tasks : u < t => pc[u] # "idle"
    /\ \E mode \in {"batch", "stream"},
          given \in givens \cup DOMAIN sessions,
          message \in texts,
          paper_context \in contexts :
        IF ValidMessage(message)
        THEN /\ req' = [req EXCEPT ![t] =
                         [mode |-> mode,
                          session_id |-> IF given = NoId THEN nextId ELSE given,
                          given_id |-> given,
                          message |-> message,
                          paper_context |-> paper_context,
                          include_sources |-> FALSE]]
             /\ IF given = NoId
                THEN /\ sessions' = Create(sessions, nextId, paper_context)
                     /\ nextId' = nextId + 1
                ELSE UNCHANGED <<sessions, nextId>>
             /\ pc' = [pc EXCEPT ![t] = "resolve"]
        ELSE /\ req' = [req EXCEPT ![t] = [NoReq EXCEPT !.message = message]]
             /\ pc' = [pc EXCEPT ![t] = "rejected"]
             /\ UNCHANGED <<sessions, nextId>>
    /\ UNCHANGED <<loc, events, result, ragVars, jobVars, api>>

\* chat() / chat_stream(): get_by_id, create if missing, orm_to_model, and
\* the construction of the user message
ResolveAfterAppend(t) ==
    /\ pc[t] = "resolve"
    /\ LET found == Exists(sessions, req[t].session_id)
           orm_id == IF found THEN req[t].session_id ELSE nextId
           store == IF found THEN sessions
                    ELSE Create(sessions, nextId, req[t].paper_context)
           user_message == ChatMessage(t, "user", Str(req[t].message),
                                       req[t].paper_context, <<>>)
       IN  /\ sessions' = store
           /\ nextId' = IF found THEN nextId ELSE nextId + 1
           /\ loc' = [loc EXCEPT
                        ![t].orm_id = orm_id,
                        ![t].session =
                            OrmToModel(Flush(store, orm_id,
                                             store[orm_id].messages,
                                             user_message)[orm_id]),
                        ![t].user_message = user_message]
    /\ pc' = [pc EXCEPT ![t] = "user_read"]
    /\ UNCHANGED <<req, events, result, ragVars, jobVars, api>>

Resolve(t) ==
    /\ pc[t] = "resolve"
    /\ LET found == Exists(sessions, req[t].session_id)
           orm_id == IF found THEN req[t].session_id ELSE nextId
           store == IF found THEN sessions
                    ELSE Create(sessions, nextId, req[t].paper_context)
       IN  /\ sessions' = store
           /\ nextId' = IF found THEN nextId ELSE nextId + 1
           /\ loc' = [loc EXCEPT ![t].orm_id = orm_id,
                                 ![t].session = OrmToModel(store[orm_id]),
                                 ![t].user_message =
                                     ChatMessage(t, "user", Str(req[t].message),
                                                 req[t].paper_context, <<>>)]
    /\ pc' = [pc EXCEPT ![t] = "user_read"]
    /\ UNCHANGED <<req, events, result, ragVars, jobVars, api>>

\* add_message(session_id, message), first half: get_by_id, None if missing.
\* The row is read here and written back at the flush; nothing locks it in
\* between, and each task works on its own AsyncSession.
AddRead(t, at, flush, next) ==
    /\ pc[t] = at
    /\ IF Exists(sessions, req[t].session_id)
       THEN /\ loc' = [loc EXCEPT ![t].db_messages =
                                      sessions[req[t].session_id].messages]
            /\ pc' = [pc EXCEPT ![t] = flush]
       ELSE /\ pc' = [pc EXCEPT ![t] = next]
            /\ UNCHANGED loc
    /\ UNCHANGED <<sessions, nextId, req, events, result, ragVars, jobVars, api>>

\* add_message, second half: the list with the message appended is flushed
AddFlush(t, at, message, next) ==
    /\ pc[t] = at
    /\ Exists(sessions, req[t].session_id)
    /\ sessions' = Flush(sessions, req[t].session_id, loc[t].db_messages, message)
    /\ loc' = [loc EXCEPT ![t].user_stored = (at = "user_flush") \/ @,
                          ![t].assistant_stored = (at = "asst_flush") \/ @]
    /\ pc' = [pc EXCEPT ![t] = next]
    /\ UNCHANGED <<nextId, req, events, result, ragVars, jobVars, api>>

\* await self.session_repo.add_message(session_id, user_message)
UserRead(t) == AddRead(t, "user_read", "user_flush", "retrieve")
UserFlush(t) == AddFlush(t, "user_flush", loc[t].user_message, "retrieve")

\* paper_ids=paper_context or session.paper_context
RetrievalScopeUnion(paper_context, session) ==
    paper_context \o session.paper_context

RetrievalScope(paper_context, session) ==
    IF paper_context # <<>> THEN paper_context ELSE session.paper_context

\* _get_rag_context(query=message, paper_ids=paper_context or
\* session.paper_context) and _build_messages; the search may raise, and
\* nothing in chat() catches it. (scope and chunks keep the paper_ids
\* argument and the chunks the search returned.)
Retrieve(t, lists) ==
    /\ pc[t] = "retrieve"
    /\ \/ /\ pc' = [pc EXCEPT ![t] = "raised"]
          /\ loc' = [loc EXCEPT ![t].failure = "retrieval"]
       \/ \E hits \in lists :
            LET scope == RetrievalScope(req[t].paper_context, loc[t].session)
                rag == GetRagContext(hits, scope)
            IN  /\ loc' = [loc EXCEPT
                             ![t].scope = scope,
                             ![t].chunks = GetContextForRag(hits, scope, TopK),
                             ![t].context = rag.context,
                             ![t].sources = rag.sources,
                             ![t].messages =
                                 BuildMessages(loc[t].session, req[t].message,
                                               rag.context)]
                /\ pc' = [pc EXCEPT ![t] =
                             IF req[t].mode = "batch" THEN "generate" ELSE "stream"]
    /\ UNCHANGED <<sessions, nextId, req, events, result, ragVars, jobVars, api>>

\* the assistant ChatMessage of chat(): pydantic raises on invalid content
AssistantMessage(t, content, sources, with_citations) ==
    ChatMessage(t, "assistant", content, PaperIdsOf(sources),
                IF with_citations THEN ExcerptsOf(sources) ELSE <<>>)

\* chat() lines 195-218: the completion returns content or raises; the
\* handler replaces the content by the apology and clears the sources
Generate(t) ==
    /\ pc[t] = "generate"
    /\ \E raises \in BOOLEAN, text \in BatchTexts, e \in Errors :
         LET content == IF raises THEN Apology(e) ELSE text
             sources == IF raises THEN <<>> ELSE loc[t].sources
         IN  IF ValidContent(content)
             THEN /\ loc' = [loc EXCEPT
                              ![t].sources = sources,
                              ![t].full_response = content.s,
                              ![t].failure = IF raises THEN "generation" ELSE "none",
                              ![t].assistant_message =
                                  AssistantMessage(t, content, sources, TRUE)]
                  /\ pc' = [pc EXCEPT ![t] = "asst_read"]
             ELSE /\ loc' = [loc EXCEPT ![t].failure = "validation"]
                  /\ pc' = [pc EXCEPT ![t] = "raised"]
    /\ UNCHANGED <<sessions, nextId, req, events, result, ragVars, jobVars, api>>

\* StreamingChatChunk(chunk=content, done=False)
PartialChunk(text) ==
    [chunk |-> text, done |-> FALSE, session_id |-> NoId,
     has_sources |-> FALSE, sources |-> <<>>]

\* chat_stream() lines 284-288: one delta of the stream; an empty delta is
\* skipped, any other is accumulated and yielded
StreamDelta(t) ==
    /\ pc[t] = "stream"
    /\ loc[t].deltas < MaxDeltas
    /\ \E d \in DeltaTexts :
         IF d.s # <<>>
         THEN /\ loc' = [loc EXCEPT ![t].deltas = @ + 1,
                                    ![t].full_response = @ \o d.s]
              /\ events' = [events EXCEPT ![t] = Append(@, PartialChunk(d.s))]
         ELSE /\ loc' = [loc EXCEPT ![t].deltas = @ + 1]
              /\ UNCHANGED events
    /\ UNCHANGED <<sessions, nextId, pc, req, result, ragVars, jobVars, api>>

\* chat_stream() lines 290-292: acompletion or the stream raises; the error
\* text is yielded and the generator is suspended inside the handler
StreamRaise(t) ==
    /\ pc[t] = "stream"
    /\ \E e \in Errors :
         /\ events' = [events EXCEPT ![t] = Append(@, PartialChunk(ErrorMsg(e).s))]
         /\ loc' = [loc EXCEPT ![t].failure = "generation"]
    /\ pc' = [pc EXCEPT ![t] = "err_yield"]
    /\ UNCHANGED <<sessions, nextId, req, result, ragVars, jobVars, api>>

\* chat_stream() lines 293-301 after the consumer resumed the generator:
\* the buffer becomes the error text, the sources are cleared
ErrResume(t) ==
    /\ pc[t] = "err_yield"
    /\ LET error_msg == Str(events[t][Len(events[t])].chunk)
       IN  /\ loc' = [loc EXCEPT
                        ![t].full_response = error_msg.s,
                        ![t].sources = <<>>,
                        ![t].assistant_message =
                            AssistantMessage(t, error_msg, <<>>, FALSE)]
           /\ pc' = [pc EXCEPT ![t] = "asst_read"]
    /\ UNCHANGED <<sessions, nextId, req, events, result, ragVars, jobVars, api>>

\* chat_stream() lines 296-301 after the stream is exhausted: the assistant
\* ChatMessage is built from the buffer; pydantic raises on an empty buffer
StreamEnd(t) ==
    /\ pc[t] = "stream"
    /\ IF ValidContent(Str(loc[t].full_response))
       THEN /\ loc' = [loc EXCEPT ![t].assistant_message =
                          AssistantMessage(t, Str(loc[t].full_response),
                                           loc[t].sources, FALSE)]
            /\ pc' = [pc EXCEPT ![t] = "asst_read"]
       ELSE /\ loc' = [loc EXCEPT ![t].failure = "validation"]
            /\ pc' = [pc EXCEPT ![t] = "raised"]
    /\ UNCHANGED <<sessions, nextId, req, events, result, ragVars, jobVars, api>>

\* the consumer of chat_stream() goes away (the client disconnects and the
\* response task is cancelled, or the generator is closed): CancelledError
\* or GeneratorExit is thrown into the generator at its suspension point;
\* neither is an Exception, so the handler of lines 290-294 is not entered
Disconnect(t) ==
    /\ req[t].mode = "stream"
    /\ pc[t] \in {"stream", "err_yield"}
    /\ pc' = [pc EXCEPT ![t] = "closed"]
    /\ UNCHANGED <<sessions, nextId, req, loc, events, result, ragVars, jobVars, api>>

\* await self.session_repo.add_message(session_id, assistant_message)
AsstReadSkipped(t) == AddRead(t, "asst_read", "final", "final")

AsstRead(t) == AddRead(t, "asst_read", "asst_flush", "final")
AsstFlush(t) == AddFlush(t, "asst_flush", loc[t].assistant_message, "final")

\* chat() lines 223-231: the ChatResponse; chat_stream() lines 304-310: the
\* final chunk
Final(t) ==
    /\ pc[t] = "final"
    /\ \E include_sources \in BOOLEAN :
        /\ req' = [req EXCEPT ![t].include_sources = include_sources]
        /\ IF req[t].mode = "batch"
           THEN /\ result' = [result EXCEPT ![t] =
                                [message |-> loc[t].assistant_message,
                                 session_id |-> req[t].session_id,
                                 sources |-> IF include_sources
                                             THEN loc[t].sources ELSE <<>>,
                                 suggested_followups |->
                                     GenerateFollowupSuggestions(
                                         req[t].message, loc[t].full_response)]]
                /\ UNCHANGED events
           ELSE /\ events' = [events EXCEPT ![t] = Append(@,
                                [chunk |-> <<>>, done |-> TRUE,
                                 session_id |-> req[t].session_id,
                                 has_sources |-> include_sources,
                                 sources |-> IF include_sources
                                             THEN loc[t].sources ELSE <<>>])]
                /\ UNCHANGED result
    /\ pc' = [pc EXCEPT ![t] = "done"]
    /\ UNCHANGED <<sessions, nextId, loc, ragVars, jobVars, api>>

\* the response has been handed to the client and the request task is over:
\* its request, locals and output are released
Respond(t) ==
    /\ pc[t] \in {"done", "raised", "closed", "rejected"}
    /\ pc' = [pc EXCEPT ![t] = "over"]
    /\ req' = [req EXCEPT ![t] = NoReq]
    /\ loc' = [loc EXCEPT ![t] = NoLoc]
    /\ events' = [events EXCEPT ![t] = <<>>]
    /\ result' = [result EXCEPT ![t] = <<>>]
    /\ UNCHANGED <<sessions, nextId, ragVars, jobVars, api>>

\* the steps of a turn after its request was accepted
Turn(t, lists) ==
    \/ Resolve(t)
    \/ UserRead(t)
    \/ UserFlush(t)
    \/ Retrieve(t, lists)
    \/ Generate(t)
    \/ StreamDelta(t)
    \/ StreamRaise(t)
    \/ ErrResume(t)
    \/ StreamEnd(t)
    \/ Disconnect(t)
    \/ AsstRead(t)
    \/ AsstFlush(t)
    \/ Final(t)

Init == ChatInit /\ RagIdle

\* no request task is in flight
Quiet == \A t \in Tasks : pc[t] \in {"idle", "over"}

(* Spec: clients that submit a request after the previous one was answered; *)
(* every kind of request and every outcome of retrieval and generation.    *)
Next ==
    \E t \in Tasks :
        \/ Quiet /\ Request(t, {NoId, GhostId}, PaperContexts, RequestTexts)
        \/ Turn(t, HitLists)
        \/ Respond(t)

Spec == Init /\ [][Next]_vars

(* SpecOverlap: requests that overlap in time (a duplicate submit), each    *)
(* task suspended and resumed at its awaits in any order.                  *)
OverlapLists == {RankedHits(ids) : ids \in {<<>>, <<1>>}}

NextOverlap ==
    \E t \in Tasks :
        \/ Request(t, {NoId}, {<<>>}, UserTexts)
        \/ Turn(t, OverlapLists)

SpecOverlap == Init /\ [][NextOverlap]_vars

(* SpecScope: requests one after the other that name their own papers, on  *)
(* sessions whose paper_context names other papers or none; the index      *)
(* holds chunks of both papers.                                            *)
ScopeContexts == {<<>>, <<1>>, <<2>>}
ScopeLists == {RankedHits(ids) : ids \in {<<1, 2>>}}

NextScope ==
    \E t \in Tasks :
        \/ Quiet /\ Request(t, {NoId}, ScopeContexts, UserTexts)
        \/ Turn(t, ScopeLists)
        \/ Respond(t)

SpecScope == Init /\ [][NextScope]_vars

(* SpecSessions: the session endpoints next to chat requests that arrive   *)
(* one after the other: sessions are looked up and deleted by id.          *)

\* the ids a client can send: a stale one and every id ever handed out
SessionIds == {GhostId} \cup 1..(nextId - 1)

\* routers/chat.py get_session: 404 if get_by_id finds nothing, else the
\* session converted by orm_to_model
GetSession(id) ==
    /\ api = NoApi
    /\ api' = IF Exists(sessions, id)
              THEN [op |-> "get", id |-> id, status |-> "ok",
                    session |-> OrmToModel(sessions[id])]
              ELSE [op |-> "get", id |-> id, status |-> "not_found",
                    session |-> NoApi.session]
    /\ UNCHANGED <<sessions, nextId, pc, req, loc, events, result, ragVars, jobVars>>

\* routers/chat.py delete_session: repo.delete returns False if get_by_id
\* finds nothing (404), else deletes the row and returns True (204)
DeleteSession(id) ==
    /\ api = NoApi
    /\ IF Exists(sessions, id)
       THEN /\ sessions' = Delete(sessions, id)
            /\ api' = [op |-> "delete", id |-> id, status |-> "deleted",
                       session |-> NoApi.session]
       ELSE /\ api' = [op |-> "delete", id |-> id, status |-> "not_found",
                       session |-> NoApi.session]
            /\ UNCHANGED sessions
    /\ UNCHANGED <<nextId, pc, req, loc, events, result, ragVars, jobVars>>

\* the titles a caller passes to update_title
Titles == {"t"}

\* ChatSessionRepository.update_title: None if get_by_id finds nothing, else
\* the title of the row is replaced and the row is returned
UpdateTitle(id) ==
    /\ api = NoApi
    /\ \E title \in Titles :
         IF Exists(sessions, id)
         THEN /\ sessions' = [sessions EXCEPT ![id].title = title]
              /\ api' = [op |-> "title", id |-> id, status |-> "ok",
                         session |-> OrmToModel(sessions'[id])]
         ELSE /\ api' = [op |-> "title", id |-> id, status |-> "not_found",
                         session |-> NoApi.session]
              /\ UNCHANGED sessions
    /\ UNCHANGED <<nextId, pc, req, loc, events, result, ragVars, jobVars>>

\* the answer of get_session / delete_session / update_title has been handed
\* to the caller
ApiRespond ==
    /\ api # NoApi
    /\ api' = NoApi
    /\ UNCHANGED <<sessions, nextId, pc, req, loc, events, result, ragVars, jobVars>>

NextSessions ==
    \/ \E t \in Tasks :
          \/ Quiet /\ api = NoApi /\ Request(t, {NoId}, {<<>>}, UserTexts)
          \/ Turn(t, OverlapLists)
          \/ Respond(t)
    \/ \E id \in SessionIds :
          \/ Quiet /\ GetSession(id)
          \/ Quiet /\ DeleteSession(id)
          \/ Quiet /\ UpdateTitle(id)
    \/ ApiRespond

SpecSessions == Init /\ [][NextSessions]_vars

(* SpecRag: _get_rag_context alone, for every ranked list of matching      *)
(* points the index can hold and every retrieval scope.                    *)
RagScopes == {<<>>, <<1, 2>>}

RagInputs ==
    /\ rag_pc = "index"
    /\ rag_hits = <<>>
    /\ rag_scope = <<>>
    /\ rag_chunks = <<>>
    /\ rag_out = <<>>

\* the paper ids of a sequence of hits, in their order
IdSeq(hits) == [i \in 1..Len(hits) |-> hits[i].paper_id]

\* one more chunk of some paper is in the index and matches the query, ranked
\* below the ones already there
RagIndexPoint ==
    /\ rag_pc = "index"
    /\ Len(rag_hits) < RagMaxHits
    /\ \E p \in 1..RagPapers : rag_hits' = RankedHits(Append(IdSeq(rag_hits), p))
    /\ UNCHANGED <<rag_pc, rag_scope, rag_chunks, rag_out, chatVars, jobVars>>

\* _get_rag_context(query, paper_ids): chunks = get_context_for_rag(...,
\* top_k) (lines 83-87), then the (context, sources) it returns (89-118)
RagContext ==
    /\ rag_pc = "index"
    /\ \E paper_ids \in RagScopes :
         LET chunks == GetContextForRag(rag_hits, paper_ids, TopK)
         IN  /\ rag_scope' = paper_ids
             /\ rag_chunks' = chunks
             /\ rag_out' = [context |-> Context(chunks), sources |-> Sources(chunks)]
    /\ rag_pc' = "done"
    /\ UNCHANGED <<rag_hits, chatVars, jobVars>>

NextRag == RagIndexPoint \/ RagContext

RagInit == ChatInit /\ RagInputs

SpecRag == RagInit /\ [][NextRag]_vars

(* SpecHistory: a turn on a session that holds any number of messages of   *)
(* earlier turns.                                                          *)

\* the text of the n-th message of the session: n words
HistoryText(n) == [i \in 1..n |-> "w"]

HistoryInit ==
    /\ sessions = Create(<< >>, 1, <<>>)
    /\ nextId = 2
    /\ pc = [t \in Tasks |-> "idle"]
    /\ req = [t \in Tasks |-> NoReq]
    /\ loc = [t \in Tasks |-> NoLoc]
    /\ events = [t \in Tasks |-> <<>>]
    /\ result = [t \in Tasks |-> <<>>]
    /\ api = NoApi
    /\ JobsIdle
    /\ RagIdle

\* an earlier turn appended its user or assistant message to session 1
HistoryAppend ==
    /\ pc[1] = "idle"
    /\ Len(sessions[1].messages) < MaxHistory
    /\ LET n == Len(sessions[1].messages) + 1
           role == IF n % 2 = 1 THEN "user" ELSE "assistant"
       IN  sessions' = Flush(sessions, 1, sessions[1].messages,
                             ChatMessage(0 - n, role, Str(HistoryText(n)),
                                         <<>>, <<>>))
    /\ UNCHANGED <<nextId, pc, req, loc, events, result, ragVars, jobVars, api>>

\* then one chat request on session 1 and its turn
NextHistory ==
    \/ HistoryAppend
    \/ Request(1, {}, {<<>>}, UserTexts)
    \/ Turn(1, OverlapLists)

SpecHistory == HistoryInit /\ [][NextHistory]_vars

(* SpecFollowup: _generate_followup_suggestions alone, evaluated by one    *)
(* request after the other on the same assistant text.                     *)
AnswerTokens == {"a", "methodology", "limitation", "Result", "finding"}
FollowupQuestions == {<<"q">>, <<"Result">>}

\* the model's answer grows by a token (before anything was evaluated)
FollowupAnswer ==
    /\ \A t \in Tasks : pc[t] = "idle"
    /\ Len(loc[1].full_response) < MaxAnswerTokens
    /\ \E tok \in AnswerTokens :
         loc' = [loc EXCEPT ![1].full_response = Append(@, tok)]
    /\ UNCHANGED <<sessions, nextId, pc, req, events, result, ragVars, jobVars, api>>

\* chat() line 224 in task t, on the answer as it stands
FollowupEval(t) ==
    /\ pc[t] = "idle"
    /\ \A u \in Tasks : u < t => pc[u] # "idle"
    /\ \E message \in FollowupQuestions :
         /\ req' = [req EXCEPT ![t].message = message]
         /\ loc' = [loc EXCEPT ![t].full_response = loc[1].full_response]
         /\ result' = [result EXCEPT ![t] =
                         [suggested_followups |->
                             GenerateFollowupSuggestions(
                                 message, loc[1].full_response)]]
    /\ pc' = [pc EXCEPT ![t] = "evaluated"]
    /\ UNCHANGED <<sessions, nextId, events, ragVars, jobVars, api>>

NextFollowup == FollowupAnswer \/ \E t \in Tasks : FollowupEval(t)

SpecFollowup == Init /\ [][NextFollowup]_vars

(* SpecIngest: the daily job's calls of insert_new_papers, one keyword's   *)
(* list after the other.                                                   *)
NextIngest == FetchPapers(PaperLists) \/ InsertNewPapers \/ InsertAgain

SpecIngest == Init /\ [][NextIngest]_vars

(* SpecScheduler: any sequence of start(), reload() and shutdown() calls   *)
(* on one SchedulerService, under a configuration that may change; while   *)
(* the scheduler runs with the job registered, the job fires.              *)

\* what the search of a job run returns: nothing, a paper, two papers
JobLists == {<<>>, <<[id |-> 1, v |-> 1]>>,
             <<[id |-> 1, v |-> 2], [id |-> 2, v |-> 1]>>}

\* the cron trigger of the registered job is due on a running scheduler
JobDue == sched.running /\ "daily_arxiv" \in Range(sched.jobs)

NextScheduler ==
    \/ SchedulerStart
    \/ SchedulerShutdown
    \/ SchedulerReload
    \/ JobDue /\ FetchPapers(JobLists)
    \/ InsertNewPapers

SpecScheduler == Init /\ [][NextScheduler]_vars

(* ------------------------------ claims --------------------------------- *)

\* the messages stored in session id, none if there is no such session
Stored(id) ==
    IF Exists(sessions, id) THEN OrmToModel(sessions[id]).messages ELSE <<>>

\* the turn got as far as building the message list for the model
GenerationReached(t) == loc[t].messages # <<>>

\* the turn was called with a session id that is not in the store
UnknownId(t) == req[t].given_id = GhostId

(* C1: a chat() call with an unknown session_id returns a ChatResponse     *)
(* whose session_id is the id of the session created for the turn, not the *)
(* unknown id that was supplied.                                           *)
C1_ReportsNewSession ==
    \A t \in Tasks :
        (pc[t] = "done" /\ req[t].mode = "batch" /\ UnknownId(t)) =>
            /\ result[t].session_id = loc[t].orm_id
            /\ result[t].session_id # req[t].given_id

(* C2: after a turn whose supplied session_id was unknown, the session     *)
(* created for the turn holds the turn's user message followed by its      *)
(* assistant message.                                                      *)
C2_CreatedSessionHoldsTurn ==
    \A t \in Tasks :
        (pc[t] = "done" /\ UnknownId(t)) =>
            \E i \in 1..Len(Stored(loc[t].orm_id)) - 1 :
                /\ Stored(loc[t].orm_id)[i] = loc[t].user_message
                /\ Stored(loc[t].orm_id)[i + 1] = loc[t].assistant_message

(* C3: when two turns on the same existing session overlap and both have   *)
(* completed, the session holds every message either of them appended.     *)
C3_NoLostAppend ==
    \A t, u \in Tasks :
        (t # u /\ pc[t] = "done" /\ pc[u] = "done"
              /\ req[t].session_id = req[u].session_id
              /\ loc[t].user_stored /\ loc[t].assistant_stored
              /\ loc[u].user_stored /\ loc[u].assistant_stored) =>
            {loc[t].user_message, loc[t].assistant_message,
             loc[u].user_message, loc[u].assistant_message}
                \subseteq Range(Stored(req[t].session_id))

(* C4: a turn that reached generation never raises to its caller, whatever *)
(* the model does (returns text, returns no text, or raises).              *)
C4_TurnNeverRaises ==
    \A t \in Tasks : GenerationReached(t) => pc[t] # "raised"

\* the events of a chat_stream() call: one done=true event, the last one,
\* with the session id and, only if asked for, the sources; nothing of that
\* on the events before it
WellFormedStream(t) ==
    /\ events[t] # <<>>
    /\ \A i \in 1..Len(events[t]) :
          LET ev == events[t][i]
          IN  IF i = Len(events[t])
              THEN /\ ev.done
                   /\ ev.session_id = req[t].session_id
                   /\ ev.has_sources = req[t].include_sources
              ELSE /\ ~ev.done
                   /\ ev.session_id = NoId
                   /\ ~ev.has_sources

(* C5: the event sequence of one chat_stream() call that reached           *)
(* generation and ended has exactly one done=true event, the last one,     *)
(* carrying the session id and (only if requested) the sources, while no   *)
(* done=false event carries either.                                        *)
C5_OneFinalEvent ==
    \A t \in Tasks :
        (req[t].mode = "stream" /\ GenerationReached(t)
              /\ pc[t] \in {"done", "raised"}) =>
            WellFormedStream(t)

(* C6: in batch mode, once the model call has raised, the user's message   *)
(* of the turn is stored in a session, and the ChatResponse that chat()    *)
(* returns has no sources and the apology as content.                      *)
C6_BatchFailureKeepsUserMessage ==
    \A t \in Tasks :
        (req[t].mode = "batch" /\ loc[t].failure = "generation") =>
            /\ pc[t] # "raised"
            /\ \E id \in DOMAIN sessions :
                  loc[t].user_message \in Range(sessions[id].messages)
            /\ pc[t] = "done" =>
                  /\ result[t].sources = <<>>
                  /\ \E e \in Errors : result[t].message.content = Apology(e).s

(* C7: when retrieval fails the turn is not aborted: it goes on without    *)
(* sources and gives the model the no-context placeholder.                 *)
C7_RetrievalFailureNotFatal ==
    \A t \in Tasks :
        loc[t].failure = "retrieval" =>
            /\ pc[t] # "raised"
            /\ loc[t].sources = <<>>
            /\ GenerationReached(t) => loc[t].messages[1].content.placeholder

(* C8: when the consumer of chat_stream() went away after increments were  *)
(* forwarded, the session that holds the turn's user message also holds,   *)
(* right after it, an assistant message with the text generated so far.    *)
(* ("closed" is the end of the generator: no statement runs after it.)     *)
C8_PartialAnswerPersisted ==
    \A t \in Tasks :
        (pc[t] = "closed" /\ events[t] # <<>> /\ loc[t].user_stored) =>
            \E i \in 1..Len(Stored(req[t].session_id)) - 1 :
                /\ Stored(req[t].session_id)[i] = loc[t].user_message
                /\ Stored(req[t].session_id)[i + 1].role = "assistant"
                /\ Stored(req[t].session_id)[i + 1].content = loc[t].full_response

\* the paper ids that occur in a sequence of chunks or source records
IdsOf(s) == {s[i].paper_id : i \in 1..Len(s)}

(* C9: whatever chunk sequence retrieval returns, _get_rag_context never   *)
(* emits two source records with the same paper id.                        *)
C9_NoDuplicateSources ==
    rag_pc = "done" =>
        \A i, j \in 1..Len(rag_out.sources) :
            i # j => rag_out.sources[i].paper_id # rag_out.sources[j].paper_id

\* assembly ran on chunks that repeat a paper id and emitted several sources
C9_Witness ==
    /\ rag_pc = "done"
    /\ Len(rag_chunks) > Cardinality(IdsOf(rag_chunks))
    /\ Len(rag_out.sources) >= 2

(* C10: the number of source records emitted for the chunks handed to      *)
(* assembly is at most min(max_sources, distinct paper ids of the chunks), *)
(* where max_sources is the top_k = 5 of the turn.                         *)
C10_SourcesBounded ==
    rag_pc = "done" =>
        Len(rag_out.sources) <= Min(TopK, Cardinality(IdsOf(rag_chunks)))

\* the index matched more than top_k points of more than top_k papers and
\* assembly emitted exactly top_k sources
C10_Witness ==
    /\ rag_pc = "done"
    /\ Cardinality(IdsOf(rag_hits)) > TopK
    /\ rag_scope = <<>>
    /\ Len(rag_out.sources) = TopK

\* the position of the first chunk of paper p in a sequence of chunks
FirstIndex(chunks, p) ==
    CHOOSE i \in 1..Len(chunks) :
        /\ chunks[i].paper_id = p
        /\ \A j \in 1..(i - 1) : chunks[j].paper_id # p

(* C11: every source record is made from the first chunk seen for its      *)
(* paper id and the records keep the order of those first occurrences; on  *)
(* chunks ranked by descending score each paper is therefore represented   *)
(* by its highest-scored chunk and the sources are in descending score     *)
(* order (p1:0.9, p2:0.85, p1:0.8, p1:0.7, p2:0.6 gives p1/0.9, p2/0.85).  *)
C11_FirstChunkPerPaper ==
    rag_pc = "done" =>
        LET src == rag_out.sources
            first(k) == FirstIndex(rag_chunks, src[k].paper_id)
        IN  /\ IdsOf(src) = IdsOf(rag_chunks)
            /\ \A k \in 1..Len(src) :
                  /\ src[k].paper_id = rag_chunks[first(k)].paper_id
                  /\ src[k].score = rag_chunks[first(k)].score
                  /\ src[k].excerpt.chars
                        = Min(rag_chunks[first(k)].text, ExcerptBudget)
                  /\ \A i \in 1..Len(rag_chunks) :
                        rag_chunks[i].paper_id = src[k].paper_id
                            => rag_chunks[i].score <= src[k].score
            /\ \A k, l \in 1..Len(src) :
                  k < l => /\ first(k) < first(l)
                           /\ src[k].score >= src[l].score

\* the scenario of the specification: three chunks of p1 and two of p2,
\* ranked p1, p2, p1, p1, p2, gave the two sources p1 (best score) then p2
C11_Witness ==
    /\ rag_pc = "done"
    /\ IdSeq(rag_chunks) = <<1, 2, 1, 1, 2>>
    /\ Len(rag_out.sources) = 2
    /\ rag_out.sources[1].paper_id = 1
    /\ rag_out.sources[1].score = rag_chunks[1].score
    /\ rag_out.sources[2].paper_id = 2
    /\ rag_out.sources[2].score = rag_chunks[2].score

(* C12: when retrieval returns no chunks, context assembly returns an      *)
(* empty context and an empty source list, and the system message given to *)
(* the model carries the no-papers placeholder, not an empty context.      *)
C12_NoChunksPlaceholder ==
    \A t \in Tasks :
        (GenerationReached(t) /\ loc[t].chunks = <<>>) =>
            /\ loc[t].sources = <<>>
            /\ loc[t].context = <<>>
            /\ loc[t].messages[1].role = "system"
            /\ loc[t].messages[1].content.placeholder
            /\ loc[t].messages[1].content.context = <<>>

\* a turn whose retrieval returned no chunks was answered
C12_Witness ==
    \E t \in Tasks :
        /\ pc[t] = "done"
        /\ loc[t].chunks = <<>>
        /\ loc[t].messages[1].content.placeholder
        /\ loc[t].failure = "none"

(* C13: the paper_ids a turn searches in are exactly the paper_context of  *)
(* the request when it is non-empty (not its union with the session's      *)
(* paper_context), and the session's paper_context otherwise; every chunk  *)
(* retrieved under a non-empty scope is of a paper in it.                  *)
C13_ExplicitScopeOverrides ==
    \A t \in Tasks :
        GenerationReached(t) =>
            /\ req[t].paper_context # <<>> =>
                  loc[t].scope = req[t].paper_context
            /\ req[t].paper_context = <<>> =>
                  loc[t].scope = sessions[loc[t].orm_id].paper_context
            /\ loc[t].scope # <<>> =>
                  \A i \in 1..Len(loc[t].chunks) :
                      loc[t].chunks[i].paper_id \in Range(loc[t].scope)

\* a turn with an explicit context on a session whose default names another
\* paper retrieved chunks, all of the explicit paper
C13_Witness ==
    \E t \in Tasks :
        /\ GenerationReached(t)
        /\ req[t].paper_context = <<2>>
        /\ sessions[loc[t].orm_id].paper_context = <<1>>
        /\ loc[t].chunks # <<>>
        /\ IdsOf(loc[t].chunks) = {2}

\* the session id the caller of a finished turn was told: the session_id of
\* the ChatResponse, or of the last event of the stream
ReportedId(t) ==
    IF req[t].mode = "batch" THEN result[t].session_id
    ELSE events[t][Len(events[t])].session_id

Appended(t) ==
    IF pc[t] = "user_flush" THEN loc[t].user_message
    ELSE loc[t].assistant_message

(* C15: read-after-write of the session store: when add_message on an      *)
(* existing session returns, get_by_id gives a session whose last message  *)
(* is the one just appended and whose earlier messages are the ones the    *)
(* session had when add_message read it.                                   *)
C15_ReadAfterWrite ==
    [][\A t \in Tasks :
          (pc[t] \in {"user_flush", "asst_flush"} /\ pc'[t] # pc[t]) =>
              LET got == OrmToModel(sessions'[req[t].session_id]).messages
                  had == [i \in 1..Len(loc[t].db_messages) |->
                             LoadMessage(loc[t].db_messages[i])]
              IN  /\ Len(got) = Len(had) + 1
                  /\ got[Len(got)] = Appended(t)
                  /\ SubSeq(got, 1, Len(got) - 1) = had]_vars

\* an assistant message was appended to a session that already held messages
\* of an earlier turn
C15_Witness ==
    \E t \in Tasks :
        /\ pc[t] = "final"
        /\ loc[t].assistant_stored
        /\ Len(Stored(req[t].session_id)) = 4
        /\ Stored(req[t].session_id)[4] = loc[t].assistant_message

\* the history part of the message list built for the model: what lies
\* between the system message and the new user message
HistoryOf(messages) == SubSeq(messages, 2, Len(messages) - 1)

(* C16: the history _build_messages takes for a turn is the last 10        *)
(* messages of the session in chronological order: a suffix of the         *)
(* session's message sequence, and the whole sequence when the session     *)
(* holds at most 10 messages.                                              *)
C16_RecentHistoryIsSuffix ==
    GenerationReached(1) =>
        LET all == loc[1].session.messages
            hist == HistoryOf(loc[1].messages)
            skip == Len(all) - Len(hist)
        IN  /\ Len(hist) = Min(HistoryLimit, Len(all))
            /\ Len(all) <= HistoryLimit => skip = 0
            /\ \A i \in 1..Len(hist) :
                  /\ hist[i].role = all[skip + i].role
                  /\ hist[i].content = all[skip + i].content

\* the message list was built on a session with more than 10 messages
C16_Witness ==
    /\ GenerationReached(1)
    /\ Len(loc[1].session.messages) > HistoryLimit
    /\ Len(HistoryOf(loc[1].messages)) = HistoryLimit
    /\ HistoryOf(loc[1].messages)[1].content
          = Stored(1)[Len(loc[1].session.messages) - HistoryLimit + 1].content

(* C17: a request whose message is empty or longer than 4000 characters is *)
(* rejected before any I/O: no session is looked up or created, nothing is *)
(* appended, neither retrieval nor the model is called, and the request    *)
(* ends there.                                                             *)
C17_InvalidMessageRejected ==
    [][\A t \in Tasks :
          /\ (pc[t] = "idle" /\ pc'[t] # "idle"
                /\ (Chars(req'[t].message) = 0
                      \/ Chars(req'[t].message) > MaxMessageChars)) =>
                 /\ pc'[t] = "rejected"
                 /\ sessions' = sessions
                 /\ nextId' = nextId
                 /\ loc'[t] = NoLoc
                 /\ events'[t] = <<>>
                 /\ result'[t] = <<>>
          /\ (pc[t] = "rejected" /\ pc'[t] # "rejected") =>
                 /\ pc'[t] = "over"
                 /\ sessions' = sessions
                 /\ nextId' = nextId]_vars

\* a request with an oversized message was rejected while the store held a
\* session of an earlier turn
C17_Witness ==
    \E t \in Tasks :
        /\ pc[t] = "rejected"
        /\ Chars(req[t].message) > MaxMessageChars
        /\ DOMAIN sessions # {}

(* C18: get_session and delete_session on an id no session is stored under *)
(* report not found and change nothing; delete_session on a stored session *)
(* succeeds and removes that session only, no id is ever stored again once *)
(* it is gone, so a later get or delete of it reports not found; a get of  *)
(* a stored session returns it and changes nothing.                        *)
C18_LookupAndDelete ==
    [][/\ \A id \in SessionIds :
             ~Exists(sessions, id) => ~Exists(sessions', id)
       /\ (api = NoApi /\ api'.op \in {"get", "delete"}) =>
             IF ~Exists(sessions, api'.id)
             THEN /\ api'.status = "not_found"
                  /\ sessions' = sessions
             ELSE IF api'.op = "delete"
             THEN /\ api'.status = "deleted"
                  /\ DOMAIN sessions' = DOMAIN sessions \ {api'.id}
                  /\ \A i \in DOMAIN sessions' : sessions'[i] = sessions[i]
             ELSE /\ api'.status = "ok"
                  /\ api'.session = OrmToModel(sessions[api'.id])
                  /\ sessions' = sessions]_vars

\* a session created for a chat request was deleted, and a later get of its
\* id was answered with not found
C18_Witness ==
    /\ api.op = "get"
    /\ api.status = "not_found"
    /\ api.id \in 1..(nextId - 1)
    /\ ~Exists(sessions, api.id)

C20_TurnStepsOrdered ==
    \A t \in Tasks :
        (req[t].mode # "none" /\ ~UnknownId(t)) =>
            /\ GenerationReached(t) =>
                  /\ loc[t].user_stored
                  /\ loc[t].user_message \in Range(Stored(req[t].session_id))
            /\ loc[t].assistant_stored =>
                  /\ pc[t] \in {"final", "done"}
                  /\ loc[t].assistant_message.content = loc[t].full_response
                  /\ Stored(req[t].session_id)[Len(Stored(req[t].session_id))]
                        = loc[t].assistant_message
            /\ pc[t] = "done" =>
                  /\ loc[t].assistant_stored
                  /\ req[t].mode = "stream" =>
                        events[t][Len(events[t])].done

\* a stream turn on an existing session whose generation failed ended with
\* both messages stored
C20_Witness ==
    \E t \in Tasks :
        /\ pc[t] = "done"
        /\ req[t].mode = "stream"
        /\ req[t].given_id \in DOMAIN sessions
        /\ loc[t].failure = "generation"
        /\ loc[t].user_stored
        /\ loc[t].assistant_stored

\* the text a consumer of the stream has been sent so far: the chunks of the
\* done=false events of task t, concatenated in order
RECURSIVE ForwardedText(_, _)
ForwardedText(t, n) ==
    IF n = 0 THEN <<>>
    ELSE ForwardedText(t, n - 1)
         \o (IF events[t][n].done THEN <<>> ELSE events[t][n].chunk)

(* C21: in streaming mode every text increment is forwarded in order as a  *)
(* done=false event, and the assistant message built after the stream      *)
(* ended (normally or with a handled exception, whose error text is one    *)
(* further done=false event) has as content the in-order concatenation of  *)
(* the text forwarded to the caller.                                       *)
C21_PersistedIsForwardedText ==
    \A t \in Tasks :
        (req[t].mode = "stream"
              /\ pc[t] \in {"asst_read", "asst_flush", "final", "done"}) =>
            loc[t].assistant_message.content
                = ForwardedText(t, Len(events[t]))

\* task t has built the assistant message of its turn
AssistantBuilt(t) == pc[t] \in {"asst_read", "asst_flush", "final", "done"}

\* two messages agree in everything but message id and timestamp
SameButId(m, n) ==
    /\ m.role = n.role
    /\ m.content = n.content
    /\ m.paper_ids = n.paper_ids
    /\ m.citations = n.citations

(* C22: batch and streaming are two deliveries of the same turn: for the   *)
(* same prior session state, user message, retrieval result and successful *)
(* model output, the messages chat() and chat_stream() append agree in     *)
(* role, content, referenced paper ids and citation excerpts.              *)
C22_BatchStreamAgree ==
    \A t, u \in Tasks :
        (/\ req[t].mode = "batch" /\ req[u].mode = "stream"
         /\ AssistantBuilt(t) /\ AssistantBuilt(u)
         /\ loc[t].failure = "none" /\ loc[u].failure = "none"
         /\ req[t].message = req[u].message
         /\ req[t].paper_context = req[u].paper_context
         /\ loc[t].session = loc[u].session
         /\ loc[t].chunks = loc[u].chunks
         /\ loc[t].full_response = loc[u].full_response) =>
            /\ SameButId(loc[t].user_message, loc[u].user_message)
            /\ SameButId(loc[t].assistant_message, loc[u].assistant_message)

\* the messages session id held before task t appended its user message
BeforeTurn(t, id) ==
    LET all == Stored(id)
        at == CHOOSE i \in 1..Len(all) : all[i] = loc[t].user_message
    IN  SubSeq(all, 1, at - 1)

(* C23: the message list sent to the model is one system message carrying  *)
(* the assembled context, then at most 10 history messages (the last       *)
(* messages of the session as it was before this turn, in their order and  *)
(* with their roles), then the current user message; that message occurs   *)
(* once, and the list has at most 12 entries.                              *)
C23_MessageListShape ==
    GenerationReached(1) =>
        LET msgs == loc[1].messages
            hist == HistoryOf(msgs)
            before == BeforeTurn(1, 1)
            skip == Len(before) - Len(hist)
        IN  /\ Len(msgs) <= HistoryLimit + 2
            /\ msgs[1].role = "system"
            /\ msgs[1].content = SystemContent(loc[1].context)
            /\ Len(hist) = Min(HistoryLimit, Len(before))
            /\ \A i \in 1..Len(hist) :
                  /\ hist[i].role = before[skip + i].role
                  /\ hist[i].content = before[skip + i].content
            /\ msgs[Len(msgs)].role = "user"
            /\ msgs[Len(msgs)].content = req[1].message
            /\ \A i \in 2..(Len(msgs) - 1) :
                  msgs[i].content # req[1].message
            /\ Cardinality({i \in 1..Len(msgs) : msgs[i].role = "system"}) = 1

\* the list was built in a turn on a session of more than 10 messages and has
\* 12 entries
C23_Witness ==
    /\ GenerationReached(1)
    /\ loc[1].user_stored
    /\ Len(BeforeTurn(1, 1)) > HistoryLimit
    /\ Len(loc[1].messages) = HistoryLimit + 2
    /\ loc[1].context # <<>>

\* the assistant message of task t as the session row holds it
PersistedAssistant(t) ==
    LET all == Stored(loc[t].orm_id)
    IN  {all[i] : i \in {j \in 1..Len(all) : all[j].id = <<t, "assistant">>}}

\* the sources the turn of task t handed to its caller
ReturnedSources(t) ==
    IF req[t].mode = "batch" THEN result[t].sources
    ELSE events[t][Len(events[t])].sources

(* C24: in a completed turn the persisted assistant message's paper_ids    *)
(* are the paper ids of the turn's sources in their order, without         *)
(* duplicates, and its citations are the excerpts of those sources; after  *)
(* a failed generation both are empty and so are the returned sources.     *)
C24_AssistantCarriesSources ==
    \A t \in Tasks :
        pc[t] = "done" =>
            /\ PersistedAssistant(t) # {}
            /\ \A m \in PersistedAssistant(t) :
                  /\ m.paper_ids = PaperIdsOf(loc[t].sources)
                  /\ \A i, j \in 1..Len(m.paper_ids) :
                        m.paper_ids[i] = m.paper_ids[j] => i = j
                  /\ m.citations = ExcerptsOf(loc[t].sources)
                  /\ loc[t].failure # "none" =>
                        /\ m.paper_ids = <<>>
                        /\ m.citations = <<>>
                        /\ ReturnedSources(t) = <<>>

\* user, assistant, user, assistant, ...: an even number of messages
Alternates(messages) ==
    /\ Len(messages) % 2 = 0
    /\ \A i \in 1..Len(messages) :
          messages[i].role = IF i % 2 = 1 THEN "user" ELSE "assistant"

(* C25: when turns do not overlap, after a completed turn on a session     *)
(* that existed before it the stored sequence alternates user, assistant   *)
(* from its first message, has even length, and its last two messages are  *)
(* the one user and one assistant message this turn appended, also when    *)
(* generation failed.                                                      *)
C25_MessagesAlternate ==
    \A t \in Tasks :
        (pc[t] = "done" /\ req[t].given_id = req[t].session_id
                        /\ Exists(sessions, req[t].given_id)) =>
            LET all == Stored(req[t].session_id)
                n == Len(all)
            IN  /\ Alternates(all)
                /\ n >= 2
                /\ all[n - 1] = loc[t].user_message
                /\ all[n] = loc[t].assistant_message

\* messages a is an initial part of messages b
IsPrefix(a, b) == Len(a) <= Len(b) /\ SubSeq(b, 1, Len(a)) = a

(* C26: a step of a chat turn (add_message included) changes at most one   *)
(* session, and of that session only the message sequence: the messages    *)
(* stored before are still there, unmodified and in their order, and       *)
(* paper_context and title are what they were; update_title leaves the     *)
(* message sequence unchanged.                                             *)
C26_TurnFrame ==
    [][\A id \in DOMAIN sessions :
          (id \in DOMAIN sessions' /\ sessions'[id] # sessions[id]) =>
              /\ \A other \in DOMAIN sessions \ {id} :
                    other \in DOMAIN sessions' =>
                        sessions'[other] = sessions[other]
              /\ IF api'.op = "title"
                 THEN sessions'[id].messages = sessions[id].messages
                 ELSE /\ IsPrefix(sessions[id].messages, sessions'[id].messages)
                      /\ sessions'[id].paper_context = sessions[id].paper_context
                      /\ sessions'[id].title = sessions[id].title]_vars

\* text holds one of the words, in one of the spellings listed
Mentions(text, words) == \E i \in 1..Len(text) : text[i] \in words

(* C27: the follow-up heuristic looks at the assistant text only, without  *)
(* regard to case: one canned question per trigger in the order            *)
(* methodology, limitation, result/finding, each at most once; the default *)
(* list of 3 exactly when there is no trigger; never an empty list.        *)
C27_FollowupsByKeyword ==
    \A t \in Tasks :
        pc[t] = "evaluated" =>
            LET answer == loc[t].full_response
                out == result[t].suggested_followups
                m == Mentions(answer, {"methodology", "Methodology"})
                l == Mentions(answer, {"limitation", "Limitation"})
                f == Mentions(answer, {"result", "Result", "finding", "Finding"})
                expected ==
                    (IF m THEN <<"Can you explain the methodology in more detail?">>
                     ELSE <<>>)
                    \o (IF l THEN <<"What are the potential ways to address these limitations?">>
                        ELSE <<>>)
                    \o (IF f THEN <<"How do these findings compare to similar research?">>
                        ELSE <<>>)
            IN  /\ out # <<>>
                /\ \A i, j \in 1..Len(out) : out[i] = out[j] => i = j
                /\ (m \/ l \/ f) => out = expected
                /\ (out = DefaultFollowups) <=> ~(m \/ l \/ f)
                /\ Len(DefaultFollowups) = 3

\* the heuristic ran on an answer naming both "Result" and "finding", for a
\* user message that is itself a keyword, and returned that question once
C27_Witness ==
    \E t \in Tasks :
        /\ pc[t] = "evaluated"
        /\ req[t].message = <<"Result">>
        /\ loc[t].full_response = <<"Result", "finding", "a">>
        /\ result[t].suggested_followups
              = <<"How do these findings compare to similar research?">>

(* C28: the excerpt of a source is the text of its chunk cut to 200        *)
(* characters, and it ends with the ellipsis marker exactly when the text  *)
(* was longer than 200 characters.                                         *)
C28_EllipsisOnlyWhenCut ==
    rag_pc = "done" =>
        \A k \in 1..Len(rag_out.sources) :
            LET chunk == rag_chunks[FirstIndex(rag_chunks,
                                               rag_out.sources[k].paper_id)]
                excerpt == rag_out.sources[k].excerpt
            IN  /\ excerpt.chars = Min(chunk.text, ExcerptBudget)
                /\ excerpt.marker <=> chunk.text > ExcerptBudget

\* the ids of the stored papers, row by row
StoredIds(rows) == [i \in 1..Len(rows) |-> rows[i].id]

(* C29: for every list handed to insert_new_papers, one that repeats an id *)
(* included: after the call no id is stored twice, every returned paper    *)
(* has a non-empty id that was not stored before, the papers stored before *)
(* are unchanged, and a second call with the same list inserts nothing and *)
(* returns the empty list.                                                 *)
C29_InsertOnlyNew ==
    ingest.pc \in {"returned", "raised"} =>
        /\ ~PrimaryKeyConflict(paper_rows)
        /\ \A i \in 1..Len(ingest.out) :
              /\ ingest.out[i].id # EmptyId
              /\ ingest.out[i].id \notin Range(StoredIds(ingest.before))
        /\ IsPrefix(ingest.before, paper_rows)
        /\ ingest.again =>
              /\ ingest.pc = "returned"
              /\ ingest.out = <<>>
              /\ paper_rows = ingest.before

(* C30: over any sequence of start(), reload() and shutdown() calls the    *)
(* underlying scheduler's start() is called at most once between two of    *)
(* its shutdowns, start() under a disabling configuration starts nothing,  *)
(* shutdown() before a completed start() changes nothing, and after any    *)
(* reload exactly one job, 'daily_arxiv', is registered.                   *)
C30_SchedulerLifecycle ==
    [][/\ sched'.start_calls <= 1
       /\ (sched'.op = "start" /\ ~sched'.enabled /\ ~sched.started) =>
             /\ sched'.running = sched.running
             /\ sched'.start_calls = sched.start_calls
       /\ (sched'.op = "shutdown" /\ ~sched.started) =>
             /\ sched'.running = sched.running
             /\ sched'.jobs = sched.jobs
             /\ sched'.started = sched.started
       /\ (sched'.op = "reload"
              \/ (sched'.op = "start"
                     /\ sched'.start_calls > sched.start_calls
                     /\ ~sched.running)) =>
             sched'.jobs = <<"daily_arxiv">>]_vars

====
